---- MODULE Spec2Model ----
(***************************************************************************)
(* Symbol index of ide_db (crates/ide_db/src/symbol_index.rs):             *)
(* SymbolIndex::new, the Query builder and Query::search (Spec, SpecIndex, *)
(* SpecRange), the SymbolCollector behind module_symbols (SpecCollect,    *)
(* SpecCollectLive), world_symbols and index_resolve (SpecWorld), and the  *)
(* parallel map of world_symbols and crate_symbols (SpecPar).              *)
(*                                                                         *)
(* Strings are sequences of Unicode code points.  The FST works on the     *)
(* UTF-8 bytes of a string, so keys and the query automaton are byte       *)
(* sequences obtained with Utf8Str.  Sequences are 1-based here; Rust      *)
(* positions (idx, start, end, IndexedValue.index) keep their 0-based      *)
(* values and are shifted by one where a sequence is read.                 *)
(***************************************************************************)
EXTENDS Integers, Sequences, FiniteSets, TLC

VARIABLES
    input,      \* the Vec<FileSymbol> handed to SymbolIndex::new, one per index to build
    indices,    \* the SymbolIndex values built so far, in the order of the search slice
    query,      \* <<>> before Query::new, then <<the Query record>>
    res,        \* the Vec<FileSymbol> returned by Query::search
    origins,    \* history: for each record of res, <<index, position>> it was cloned from
    tie,        \* how the union's heap resolved slots equal in key and value
    pc,         \* "build", "query", "done" or "panic"
    enc,        \* one use of range_to_map_value and map_value_to_range
    cancelled,  \* the database's cancellation flag
    symbol_collector,   \* the SymbolCollector of collect: symbols, container_name_stack
                        \* and work, the top of each stack last
    cur,        \* <<>> or <<the work item popped by the loop of collect>>
    cpc,        \* position of the collector, "idle" when no collection runs
    mark,       \* history: lengths of symbols and work when the item was popped
    polled,     \* history: a poll was made since the previous item finished
    module_index,   \* <<>> or <<the SymbolIndex returned by module_symbols>>
    trace,      \* history: the pushes, pops and completions of work items, in order
    local_roots,    \* db.local_roots(), in iteration order
    library_roots,  \* keys of db.library_symbols(), in iteration order
    buf_src,    \* history: where each index of world_symbols' buf came from
    par_iter    \* the parallel map over module_ids: the ids, one job per id, and
                \* history: the order in which the jobs finished

searchVars == <<input, indices, query, res, origins, tie, pc>>

collectorVars ==
    <<cancelled, symbol_collector, cur, cpc, mark, polled, module_index, trace>>

worldVars == <<local_roots, library_roots, buf_src, par_iter>>

vars == <<searchVars, enc, collectorVars, worldVars>>

----------------------------------------------------------------------------
(* Bounds of the model *)

\* longest Vec<FileSymbol> handed to SymbolIndex::new for the first index
MaxSyms == 2
\* largest of the small offsets given to range_to_map_value
MaxOffset == 3
\* largest finite value given to Query::limit
MaxLimit == 2
\* longest Vec<FileSymbol> of an index built alone (SpecIndex)
MaxBuild == 3

----------------------------------------------------------------------------
(* Characters and strings *)

\* usize::max_value(); the model's integers are narrower than usize, the value
\* stands for a limit no result length reaches
UsizeMax == 2147483647

\* one 16-bit limb; a u64 is kept as four limbs, most significant first
Limb == 256 * 256

\* char::to_ascii_lowercase
to_ascii_lowercase(c) == IF c >= 65 /\ c <= 90 THEN c + 32 ELSE c

\* char::to_lowercase (Unicode), for the code points below U+0100 and the
\* lowercase letters above it that the model uses
to_lowercase_char(c) ==
    IF c >= 65 /\ c <= 90 THEN c + 32
    ELSE IF c >= 192 /\ c <= 222 /\ c # 215 THEN c + 32
    ELSE c

\* str::to_ascii_lowercase
str_to_ascii_lowercase(s) == [i \in 1..Len(s) |-> to_ascii_lowercase(s[i])]

\* str::to_lowercase
str_to_lowercase(s) == [i \in 1..Len(s) |-> to_lowercase_char(s[i])]

\* UTF-8 encoding of one code point (up to three bytes)
Utf8(c) ==
    IF c < 128 THEN <<c>>
    ELSE IF c < 2048 THEN <<192 + (c \div 64), 128 + (c % 64)>>
    ELSE <<224 + (c \div 4096), 128 + ((c \div 64) % 64), 128 + (c % 64)>>

RECURSIVE Utf8Str(_)
Utf8Str(s) == IF s = <<>> THEN <<>> ELSE Utf8(Head(s)) \o Utf8Str(Tail(s))

\* Ord for sequences (Iterator::cmp, and the byte order of FST keys)
RECURSIVE SeqCmp(_, _)
SeqCmp(a, b) ==
    IF a = <<>> /\ b = <<>> THEN "Equal"
    ELSE IF a = <<>> THEN "Less"
    ELSE IF b = <<>> THEN "Greater"
    ELSE IF Head(a) < Head(b) THEN "Less"
    ELSE IF Head(a) > Head(b) THEN "Greater"
    ELSE SeqCmp(Tail(a), Tail(b))

----------------------------------------------------------------------------
(* FileSymbol *)

FileSymbolKind ==
    {"Const", "Enum", "Function", "Macro", "Module", "Static", "Struct", "Trait",
     "TypeAlias", "Union"}

\* is_type taking a module for a type
IsTypeWithModule(kind) == kind \in {"Struct", "Enum", "Trait", "TypeAlias", "Union", "Module"}

\* FileSymbolKind::is_type
is_type(kind) == kind \in {"Struct", "Enum", "Trait", "TypeAlias", "Union"}

FileSymbol(name, kind, loc) ==
    [name |-> name, kind |-> kind, loc |-> loc, container_name |-> <<>>]

----------------------------------------------------------------------------
(* SymbolIndex *)

\* cmp without the lowercasing of the characters
CmpRaw(lhs, rhs) == SeqCmp(lhs.name, rhs.name)

\* fn cmp inside SymbolIndex::new
cmp(lhs, rhs) == SeqCmp(str_to_ascii_lowercase(lhs.name), str_to_ascii_lowercase(rhs.name))

\* one insertion of the stable sort: x goes after every element not greater than it
RECURSIVE SortInsert(_, _)
SortInsert(sorted, x) ==
    IF sorted = <<>> THEN <<x>>
    ELSE IF cmp(x, Head(sorted)) = "Less" THEN <<x>> \o sorted
    ELSE <<Head(sorted)>> \o SortInsert(Tail(sorted), x)

RECURSIVE SortFrom(_, _)
SortFrom(symbols, acc) ==
    IF symbols = <<>> THEN acc ELSE SortFrom(Tail(symbols), SortInsert(acc, Head(symbols)))

\* symbols.par_sort_by(cmp): a stable sort
par_sort_by(symbols) == SortFrom(symbols, <<>>)

\* SymbolIndex::range_to_map_value: ((start as u64) << 32) | end as u64
range_to_map_value(start, end) ==
    <<(start \div Limb) % Limb, start % Limb, (end \div Limb) % Limb, end % Limb>>

\* map_value_to_range reading 16 bits of each half
MapValueToRangeShort(value) == <<value[2], value[4]>>

\* SymbolIndex::map_value_to_range: (value >> 32, value as u32)
map_value_to_range(value) ==
    <<value[1] * Limb + value[2], value[3] * Limb + value[4]>>

\* fst::MapBuilder::insert: keys must arrive in strictly ascending byte order
builder_insert(builder, key, value) ==
    IF builder.err THEN builder
    ELSE IF builder.kvs # <<>> /\ SeqCmp(builder.kvs[Len(builder.kvs)][1], key) # "Less"
         THEN [builder EXCEPT !.err = TRUE]
    ELSE [builder EXCEPT !.kvs = Append(@, <<key, value>>)]

\* the sweep with the key taken from the name as written
RECURSIVE SweepRawKey(_, _, _, _)
SweepRawKey(symbols, idx, last_batch_start, builder) ==
    IF idx >= Len(symbols) THEN builder
    ELSE IF idx + 1 < Len(symbols)
            /\ cmp(symbols[last_batch_start + 1], symbols[idx + 2]) = "Equal"
         THEN SweepRawKey(symbols, idx + 1, last_batch_start, builder)
    ELSE LET start == last_batch_start
             end   == idx + 1
             key   == Utf8Str(symbols[start + 1].name)
             value == range_to_map_value(start, end)
         IN  SweepRawKey(symbols, idx + 1, end, builder_insert(builder, key, value))

\* the sweep of SymbolIndex::new from position idx on
RECURSIVE Sweep(_, _, _, _)
Sweep(symbols, idx, last_batch_start, builder) ==
    IF idx >= Len(symbols) THEN builder
    ELSE IF idx + 1 < Len(symbols)
            /\ cmp(symbols[last_batch_start + 1], symbols[idx + 2]) = "Equal"
         THEN Sweep(symbols, idx + 1, last_batch_start, builder)
    ELSE LET start == last_batch_start
             end   == idx + 1
             key   == Utf8Str(str_to_ascii_lowercase(symbols[start + 1].name))
             value == range_to_map_value(start, end)
         IN  Sweep(symbols, idx + 1, end, builder_insert(builder, key, value))

\* fst::MapBuilder::memory()
builder_memory == [err |-> FALSE, kvs |-> <<>>]

\* SymbolIndex::new; map.err tells that builder.insert(..).unwrap() panicked
SymbolIndexNew(symbols) ==
    LET sorted == par_sort_by(symbols)
    IN  [symbols |-> sorted, map |-> Sweep(sorted, 0, 0, builder_memory)]

----------------------------------------------------------------------------
(* Query *)

\* Query::new
QueryNew(q) ==
    [query |-> q, lowercased |-> str_to_lowercase(q), only_types |-> FALSE, libs |-> FALSE,
     exact |-> FALSE, case_sensitive |-> FALSE, limit |-> UsizeMax]

\* fst::automaton::Subsequence::accept over the bytes of subseq; states are 0..Len(subseq)
subsequence_accept(subseq, state, byte) ==
    IF state = Len(subseq) THEN state
    ELSE IF byte = subseq[state + 1] THEN state + 1
    ELSE state

RECURSIVE subsequence_run(_, _, _)
subsequence_run(subseq, state, bytes) ==
    IF bytes = <<>> THEN state
    ELSE subsequence_run(subseq, subsequence_accept(subseq, state, Head(bytes)), Tail(bytes))

\* Subsequence::is_match after reading the whole key
subsequence_is_match(subseq, key) == subsequence_run(subseq, 0, key) = Len(subseq)

\* a search that streams every key of the map
MapSearchAll(map, subseq) == map.kvs

\* file_symbols.map.search(automaton): the matching (key, value) pairs in key order
map_search(map, subseq) ==
    LET Test(kv) == subsequence_is_match(subseq, kv[1])
    IN  SelectSeq(map.kvs, Test)

\* the keys of a set in ascending byte order
RECURSIVE SortKeys(_)
SortKeys(S) ==
    IF S = {} THEN <<>>
    ELSE LET m == CHOOSE k \in S : \A o \in S : SeqCmp(k, o) # "Greater"
         IN  <<m>> \o SortKeys(S \ {m})

\* the value a stream holds for a key
StreamValue(stream, key) ==
    LET j == CHOOSE j \in 1..Len(stream) : stream[j][1] = key IN stream[j][2]

\* slots of one key ordered by the position of their index
SlotBeforeByIndex(streams, key, i, j, tb) == i < j

\* the union's heap order of two slots of one key: by output value; slots equal
\* in value leave the heap in an order that depends on its history (tb)
SlotBefore(streams, key, i, j, tb) ==
    LET c == SeqCmp(StreamValue(streams[i], key), StreamValue(streams[j], key))
    IN  c = "Less" \/ (c = "Equal" /\ (IF tb THEN i > j ELSE i < j))

RECURSIVE SortSlots(_, _, _, _)
SortSlots(streams, key, S, tb) ==
    IF S = {} THEN <<>>
    ELSE LET m == CHOOSE i \in S : \A j \in S \ {i} : SlotBefore(streams, key, i, j, tb)
         IN  <<[index |-> m - 1, value |-> StreamValue(streams[m], key)]>>
             \o SortSlots(streams, key, S \ {m}, tb)

\* op.union(): per key, ascending, the IndexedValues of the streams that hold it
op_union(streams, tb) ==
    LET keys == UNION {{streams[i][j][1] : j \in 1..Len(streams[i])} : i \in 1..Len(streams)}
        sorted == SortKeys(keys)
    IN  [n \in 1..Len(sorted) |->
            <<sorted[n],
              SortSlots(streams, sorted[n],
                        {i \in 1..Len(streams) :
                            \E j \in 1..Len(streams[i]) : streams[i][j][1] = sorted[n]},
                        tb)>>]

\* the filters with the case-sensitive test made on the lowercased query
AcceptsLowercased(q, symbol) ==
    IF q.only_types /\ ~is_type(symbol.kind) THEN FALSE
    ELSE IF q.exact THEN symbol.name = q.query
    ELSE IF q.case_sensitive
         THEN ~\E i \in 1..Len(q.lowercased) :
                  ~\E j \in 1..Len(symbol.name) : symbol.name[j] = q.lowercased[i]
    ELSE TRUE

\* the filters with the case-sensitive test made before the exact test
AcceptsCaseFirst(q, symbol) ==
    IF q.only_types /\ ~is_type(symbol.kind) THEN FALSE
    ELSE IF q.case_sensitive
         THEN ~\E i \in 1..Len(q.query) :
                  ~\E j \in 1..Len(symbol.name) : symbol.name[j] = q.query[i]
    ELSE IF q.exact THEN symbol.name = q.query
    ELSE TRUE

\* the filters of Query::search on one symbol
Accepts(q, symbol) ==
    IF q.only_types /\ ~is_type(symbol.kind) THEN FALSE
    ELSE IF q.exact THEN symbol.name = q.query
    ELSE IF q.case_sensitive
         THEN ~\E i \in 1..Len(q.query) :
                  ~\E j \in 1..Len(symbol.name) : symbol.name[j] = q.query[i]
    ELSE TRUE

\* the positions Query::search visits, in order: for each key of the union, for
\* each indexed value, the range start..end of that index
RECURSIVE RangeSeq(_, _, _)
RangeSeq(index, start, end) ==
    IF start >= end THEN <<>> ELSE <<<<index, start>>>> \o RangeSeq(index, start + 1, end)

\* only the first indexed value of a key is visited
VisitValuesFirst(indexed_values) ==
    IF indexed_values = <<>> THEN <<>>
    ELSE LET iv == Head(indexed_values)
             r  == map_value_to_range(iv.value)
         IN  RangeSeq(iv.index, r[1], r[2])

RECURSIVE VisitValues(_)
VisitValues(indexed_values) ==
    IF indexed_values = <<>> THEN <<>>
    ELSE LET iv == Head(indexed_values)
             r  == map_value_to_range(iv.value)
         IN  RangeSeq(iv.index, r[1], r[2]) \o VisitValues(Tail(indexed_values))

RECURSIVE VisitStream(_)
VisitStream(stream) ==
    IF stream = <<>> THEN <<>>
    ELSE VisitValues(Head(stream)[2]) \o VisitStream(Tail(stream))

\* the loop body of Query::search over the visited positions: filter, push,
\* return as soon as res.len() >= limit
RECURSIVE SearchLoop(_, _, _, _)
SearchLoop(q, idxs, visit, acc) ==
    IF visit = <<>> THEN acc
    ELSE LET o      == Head(visit)
             symbol == idxs[o[1] + 1].symbols[o[2] + 1]
         IN  IF ~Accepts(q, symbol) THEN SearchLoop(q, idxs, Tail(visit), acc)
             ELSE IF Len(acc) + 1 >= q.limit THEN Append(acc, o)
             ELSE SearchLoop(q, idxs, Tail(visit), Append(acc, o))

\* Query::search, as the sequence of <<index, position>> of the records returned
SearchOrigins(q, idxs, tb) ==
    LET subseq  == Utf8Str(q.lowercased)
        streams == [i \in 1..Len(idxs) |-> map_search(idxs[i].map, subseq)]
    IN  SearchLoop(q, idxs, VisitStream(op_union(streams, tb)), <<>>)

\* the records at a sequence of origins
Records(idxs, os) == [n \in 1..Len(os) |-> idxs[os[n][1] + 1].symbols[os[n][2] + 1]]

\* Query::search
search(q, idxs, tb) == Records(idxs, SearchOrigins(q, idxs, tb))

\* two slots of the union equal in key and value
HasTie(q, idxs) ==
    LET subseq  == Utf8Str(q.lowercased)
        streams == [i \in 1..Len(idxs) |-> map_search(idxs[i].map, subseq)]
    IN  \E i, j \in 1..Len(idxs) : i < j /\
            \E a \in 1..Len(streams[i]) : \E b \in 1..Len(streams[j]) :
                streams[i][a] = streams[j][b]

----------------------------------------------------------------------------
(* Inputs *)

\* the declarations the first index is built from: "a", "A", "AB", "ab",
\* "É" (U+00C9), "é" (U+00E9), "ãũ" (U+00E3 U+0169)
PoolA ==
    { FileSymbol(<<97>>, "Function", 1),
      FileSymbol(<<65>>, "Struct", 2),
      FileSymbol(<<65, 66>>, "Enum", 3),
      FileSymbol(<<97, 98>>, "Module", 4),
      FileSymbol(<<201>>, "Trait", 6),
      FileSymbol(<<233>>, "Const", 7),
      FileSymbol(<<227, 361>>, "Union", 8) }

\* the symbol vectors of the first index: each declaration at most once
InputsA ==
    {s \in UNION {[1..n -> PoolA] : n \in 0..MaxSyms} :
        \A i, j \in 1..Len(s) : i # j => s[i] # s[j]}

\* the symbol vectors of the second index: none, "A", "é"
InputsB ==
    { <<>>,
      <<FileSymbol(<<65>>, "TypeAlias", 12)>>,
      <<FileSymbol(<<233>>, "Static", 13)>> }

\* the symbol vectors of an index built alone: any sequence of declarations
BuildInputs == UNION {[1..n -> PoolA] : n \in 0..MaxBuild}

\* the lists of symbol vectors: no index, one index, two indexes
Inputs == {<<>>} \cup {<<a>> : a \in InputsA} \cup {<<a, b>> : a \in InputsA, b \in InputsB}

\* the query strings: "", "a", "AB", "é", "É"
QueryStrings == {<<>>, <<97>>, <<65, 66>>, <<233>>, <<201>>}

----------------------------------------------------------------------------
(* Specification *)

\* no collection runs
NoCollector ==
    /\ cancelled = FALSE
    /\ symbol_collector = [symbols |-> <<>>, container_name_stack |-> <<>>, work |-> <<>>]
    /\ cur = <<>>
    /\ cpc = "idle"
    /\ mark = <<0, 0>>
    /\ polled = FALSE
    /\ module_index = <<>>
    /\ trace = <<>>

\* no root is registered and world_symbols has not run
NoWorld ==
    /\ local_roots = <<>>
    /\ library_roots = <<>>
    /\ buf_src = <<>>
    /\ par_iter = [krate |-> <<>>, module_ids |-> <<>>, jobs |-> <<>>, order |-> <<>>]

Init ==
    /\ input \in Inputs
    /\ indices = <<>>
    /\ query = <<>>
    /\ res = <<>>
    /\ origins = <<>>
    /\ tie = FALSE
    /\ pc = "build"
    /\ enc = <<>>
    /\ NoCollector
    /\ NoWorld

\* SymbolIndex::new on the next symbol vector (module_symbols, for_files)
NewIndex ==
    /\ pc = "build"
    /\ Len(indices) < Len(input)
    /\ LET index == SymbolIndexNew(input[Len(indices) + 1])
       IN  IF index.map.err
           THEN pc' = "panic" /\ UNCHANGED indices
           ELSE indices' = Append(indices, index) /\ UNCHANGED pc
    /\ UNCHANGED <<input, query, res, origins, tie>>
    /\ UNCHANGED <<enc, collectorVars, worldVars>>

\* Query::new(query)
New ==
    /\ pc = "build"
    /\ Len(indices) = Len(input)
    /\ \E q \in QueryStrings : query' = <<QueryNew(q)>>
    /\ pc' = "query"
    /\ UNCHANGED <<input, indices, res, origins, tie>>
    /\ UNCHANGED <<enc, collectorVars, worldVars>>

\* Query::only_types
OnlyTypes ==
    /\ pc = "query"
    /\ query' = <<[query[1] EXCEPT !.only_types = TRUE]>>
    /\ UNCHANGED <<input, indices, res, origins, tie, pc>>
    /\ UNCHANGED <<enc, collectorVars, worldVars>>

\* Query::exact
Exact ==
    /\ pc = "query"
    /\ query' = <<[query[1] EXCEPT !.exact = TRUE]>>
    /\ UNCHANGED <<input, indices, res, origins, tie, pc>>
    /\ UNCHANGED <<enc, collectorVars, worldVars>>

\* Query::case_sensitive
CaseSensitive ==
    /\ pc = "query"
    /\ query' = <<[query[1] EXCEPT !.case_sensitive = TRUE]>>
    /\ UNCHANGED <<input, indices, res, origins, tie, pc>>
    /\ UNCHANGED <<enc, collectorVars, worldVars>>

\* Query::limit(limit)
Limit ==
    /\ pc = "query"
    /\ \E limit \in 0..MaxLimit : query' = <<[query[1] EXCEPT !.limit = limit]>>
    /\ UNCHANGED <<input, indices, res, origins, tie, pc>>
    /\ UNCHANGED <<enc, collectorVars, worldVars>>

\* Query::search(self, indices)
Search ==
    /\ pc = "query"
    /\ \E tb \in BOOLEAN :
          /\ tie' = (tb /\ HasTie(query[1], indices))
          /\ origins' = SearchOrigins(query[1], indices, tie')
          /\ res' = Records(indices, origins')
    /\ pc' = "done"
    /\ UNCHANGED <<input, indices, query>>
    /\ UNCHANGED <<enc, collectorVars, worldVars>>

Next == NewIndex \/ New \/ OnlyTypes \/ Exact \/ CaseSensitive \/ Limit \/ Search

Spec == Init /\ [][Next]_vars

\* SymbolIndex::new alone, on any symbol vector
InitIndex ==
    /\ input \in {<<s>> : s \in BuildInputs}
    /\ indices = <<>>
    /\ query = <<>>
    /\ res = <<>>
    /\ origins = <<>>
    /\ tie = FALSE
    /\ pc = "build"
    /\ enc = <<>>
    /\ NoCollector
    /\ NoWorld

NextIndex == NewIndex

SpecIndex == InitIndex /\ [][NextIndex]_vars

----------------------------------------------------------------------------
(* Properties of SymbolIndex::new *)

\* the ASCII-lowercased name of a symbol as bytes
LowerBytes(symbol) == Utf8Str(str_to_ascii_lowercase(symbol.name))

\* the stored ranges of an index, as <<start, end>> in map order
Ranges(index) == [n \in 1..Len(index.map.kvs) |-> map_value_to_range(index.map.kvs[n][2])]

\* C9 (sort-and-batch invariant): in every index built by SymbolIndex::new, every
\* key k with stored range [s, e) has s < e, e <= symbols.len(), and every
\* symbols[i] with s <= i < e has ASCII-lowercased name k.
C9_SortAndBatch ==
    \A x \in 1..Len(indices) :
        LET index == indices[x] IN
        \A n \in 1..Len(index.map.kvs) :
            LET k == index.map.kvs[n][1]
                r == Ranges(index)[n]
            IN  /\ r[1] < r[2]
                /\ r[2] <= Len(index.symbols)
                /\ \A i \in r[1]..(r[2] - 1) : LowerBytes(index.symbols[i + 1]) = k

\* C9 witness: an index was built from an unsorted vector and holds a batch of
\* two records whose original names differ, next to another batch.
C9_Witness ==
    /\ Len(indices) = 1
    /\ input[1] # indices[1].symbols
    /\ Len(indices[1].map.kvs) = 2
    /\ \E n \in 1..2 :
          LET r == Ranges(indices[1])[n]
          IN  /\ r[2] = r[1] + 2
              /\ indices[1].symbols[r[1] + 1].name # indices[1].symbols[r[1] + 2].name

\* C10 (partition invariant): SymbolIndex::new never fails, and in every index it
\* builds the stored ranges are pairwise disjoint and cover exactly
\* 0..symbols.len(): every position lies in exactly one range, an empty vector
\* yields no range, and there is one range per distinct lowercased name, the keys
\* being strictly ascending.
C10_Partition ==
    /\ pc # "panic"
    /\ \A x \in 1..Len(indices) :
          LET index == indices[x]
              kvs   == index.map.kvs
              rs    == Ranges(index)
          IN  /\ \A i \in 0..(Len(index.symbols) - 1) :
                    Cardinality({n \in 1..Len(rs) : rs[n][1] <= i /\ i < rs[n][2]}) = 1
              /\ \A n \in 1..Len(rs) : rs[n][1] < rs[n][2] /\ rs[n][2] <= Len(index.symbols)
              /\ Len(kvs) = Cardinality({LowerBytes(index.symbols[i]) : i \in 1..Len(index.symbols)})
              /\ \A n \in 1..(Len(kvs) - 1) : SeqCmp(kvs[n][1], kvs[n + 1][1]) = "Less"

\* C10 witness: an index of three records in two ranges was built from a vector
\* that starts with its greatest name.
C10_Witness ==
    /\ Len(indices) = 1
    /\ Len(indices[1].symbols) = 3
    /\ Len(indices[1].map.kvs) = 2
    /\ input[1][1].name = <<233>>
    /\ Ranges(indices[1]) = <<<<0, 2>>, <<2, 3>>>>

----------------------------------------------------------------------------
(* Properties of Query::search *)

\* a is an ordered, not necessarily contiguous, subsequence of b
IsSubsequence(a, b) ==
    \E f \in [1..Len(a) -> 1..Len(b)] :
        /\ \A i \in 1..Len(a) : b[f[i]] = a[i]
        /\ \A i, j \in 1..Len(a) : i < j => f[i] < f[j]

\* every <<index, position>> of a list of indexes
AllOrigins(idxs) ==
    UNION {{<<x - 1, i - 1>> : i \in 1..Len(idxs[x].symbols)} : x \in 1..Len(idxs)}

\* the record at an origin
At(idxs, o) == idxs[o[1] + 1].symbols[o[2] + 1]

\* the number of times r occurs in a sequence
Count(r, seq) == Cardinality({n \in 1..Len(seq) : seq[n] = r})

\* two sequences hold the same records the same number of times
SameMultiset(s, t) ==
    \A r \in {s[n] : n \in 1..Len(s)} \cup {t[n] : n \in 1..Len(t)} : Count(r, s) = Count(r, t)

Min(a, b) == IF a <= b THEN a ELSE b

\* the query of the search with its limit lifted
Unlimited(q) == [q EXCEPT !.limit = UsizeMax]

NoFlags(q) == ~q.only_types /\ ~q.exact /\ ~q.case_sensitive

\* C1 (limit), as claimed: for every limit, search returns at most limit records,
\* and exactly limit records whenever the same search without a limit returns at
\* least limit records.
C1_Limit ==
    pc = "done" =>
        /\ Len(res) <= query[1].limit
        /\ (Len(search(Unlimited(query[1]), indices, tie)) >= query[1].limit
                => Len(res) = query[1].limit)

\* C2 (subsequence completeness), as claimed: over one index, with no flag and
\* no limit, every record whose lowercased name contains the lowercased query as
\* a subsequence of characters is returned.
C2_Completeness ==
    (pc = "done" /\ Len(indices) = 1 /\ NoFlags(query[1]) /\ query[1].limit = UsizeMax) =>
        \A o \in AllOrigins(indices) :
            IsSubsequence(str_to_lowercase(query[1].query), str_to_lowercase(At(indices, o).name))
                => \E n \in 1..Len(origins) : origins[n] = o

\* C3 (subsequence soundness), as claimed: over one index, with no flag and a
\* non-empty query, the lowercased characters of the query are a subsequence of
\* the lowercased characters of the name of every record returned.
C3_SoundnessChars ==
    (pc = "done" /\ Len(indices) = 1 /\ NoFlags(query[1]) /\ query[1].query # <<>>) =>
        \A n \in 1..Len(res) :
            IsSubsequence(str_to_lowercase(query[1].query), str_to_lowercase(res[n].name))

\* C3 as amended: over one index, with no flag and a non-empty query, the UTF-8
\* bytes of the lowercased query are a subsequence of the UTF-8 bytes of the
\* ASCII-lowercased name of every record returned.
C3_SoundnessBytes ==
    (pc = "done" /\ Len(indices) = 1 /\ NoFlags(query[1]) /\ query[1].query # <<>>) =>
        \A n \in 1..Len(res) :
            IsSubsequence(Utf8Str(str_to_lowercase(query[1].query)), LowerBytes(res[n]))

\* C3 witness: a one-index search without flags for "é" returned a record and
\* left out a record of the index whose bytes do not hold the query's bytes.
C3_Witness ==
    /\ pc = "done" /\ Len(indices) = 1 /\ NoFlags(query[1])
    /\ query[1].query = <<233>>
    /\ Len(res) = 1
    /\ Len(indices[1].symbols) = 2
    /\ \E o \in AllOrigins(indices) :
          ~IsSubsequence(Utf8Str(query[1].lowercased), LowerBytes(At(indices, o)))

\* the records of the indexes whose name is the query string
ExactMatches(q, idxs) == {o \in AllOrigins(idxs) : At(idxs, o).name = q.query}

\* C4 (exact flag), as claimed: with exact set and only_types unset, search
\* returns only records whose name equals the query string in original case,
\* and min(number of such records, limit) of them.
C4_Exact ==
    (pc = "done" /\ query[1].exact /\ ~query[1].only_types) =>
        /\ \A n \in 1..Len(res) : res[n].name = query[1].query
        /\ \A m, n \in 1..Len(origins) : m # n => origins[m] # origins[n]
        /\ Len(res) = Min(Cardinality(ExactMatches(query[1], indices)), query[1].limit)

\* C5 (only_types): with only_types set, whatever the query string, the other
\* flags and the limit, every record returned is an Enum, Struct, Trait,
\* TypeAlias or Union.
C5_OnlyTypes ==
    (pc = "done" /\ query[1].only_types) =>
        \A n \in 1..Len(res) :
            /\ res[n].kind \in {"Enum", "Struct", "Trait", "TypeAlias", "Union"}
            /\ res[n].kind \notin {"Const", "Function", "Macro", "Module", "Static"}

\* C5 witness: a search with only_types returned a record while the same search
\* without only_types returns a Module or Function record as well.
C5_Witness ==
    /\ pc = "done" /\ query[1].only_types
    /\ Len(res) >= 1
    /\ LET all == search([query[1] EXCEPT !.only_types = FALSE], indices, tie)
       IN  \E n \in 1..Len(all) : all[n].kind \in {"Module", "Function"}

\* every character of the query string occurs in the name as written
ContainsAllChars(q, symbol) ==
    {q.query[i] : i \in 1..Len(q.query)} \subseteq {symbol.name[j] : j \in 1..Len(symbol.name)}

C7_UnionEquivalence ==
    (pc = "done" /\ Len(indices) = 2 /\ query[1].limit = UsizeMax) =>
        SameMultiset(res, search(query[1], <<indices[1]>>, FALSE)
                          \o search(query[1], <<indices[2]>>, FALSE))

\* C7 witness: a search without limit over two indexes that share a key
\* returned the records of that key from both, and another record.
C7_Witness ==
    /\ pc = "done" /\ Len(indices) = 2 /\ query[1].limit = UsizeMax
    /\ Len(res) = 3
    /\ \E m, n \in 1..Len(origins) :
          /\ origins[m][1] = 0 /\ origins[n][1] = 1
          /\ LowerBytes(res[m]) = LowerBytes(res[n])

\* the stored value of the batch a record lies in
BatchValue(idxs, o) == StreamValue(idxs[o[1] + 1].map.kvs, LowerBytes(At(idxs, o)))

\* C8 (result order), as claimed: the records returned are ordered by lowercased
\* name ascending, records of one name by the position of their index in the
\* list, and within one index by their position in the batch.  Stated for the
\* runs in which slots equal in key and value left the heap in index order.
C8_OrderByIndex ==
    (pc = "done" /\ ~tie) =>
        \A m, n \in 1..Len(origins) : m < n =>
            LET c == SeqCmp(LowerBytes(res[m]), LowerBytes(res[n]))
            IN  \/ c = "Less"
                \/ /\ c = "Equal"
                   /\ \/ origins[m][1] < origins[n][1]
                      \/ origins[m][1] = origins[n][1] /\ origins[m][2] < origins[n][2]

\* C8 as amended: the records returned are ordered by ASCII-lowercased name (byte
\* order) ascending; records of one name are ordered by the encoded range value
\* of their batch, so the records of one index stay together, and within one
\* index by their position in the batch; the position of the index in the list
\* does not decide the order.
C8_OrderByValue ==
    pc = "done" =>
        \A m, n \in 1..Len(origins) : m < n =>
            LET c == SeqCmp(LowerBytes(res[m]), LowerBytes(res[n]))
            IN  \/ c = "Less"
                \/ /\ c = "Equal"
                   /\ IF origins[m][1] = origins[n][1]
                      THEN /\ origins[m][2] < origins[n][2]
                           /\ \A k \in m..n : origins[k][1] = origins[m][1]
                      ELSE SeqCmp(BatchValue(indices, origins[m]),
                                  BatchValue(indices, origins[n])) # "Greater"

\* C8 witness: a search returned, for one name, the record of the second index
\* before the record of the first, after a record of a smaller name.
C8_Witness ==
    /\ pc = "done" /\ ~tie
    /\ Len(res) = 3
    /\ origins[2][1] = 1 /\ origins[3][1] = 0
    /\ LowerBytes(res[2]) = LowerBytes(res[3])
    /\ SeqCmp(LowerBytes(res[1]), LowerBytes(res[2])) = "Less"

\* C14: with exact set, case_sensitive changes nothing: for every query string,
\* limit, only_types and list of indexes, the search with exact and
\* case_sensitive returns the sequence that the search with exact alone returns.
C14_ExactIgnoresCase ==
    (pc = "done" /\ query[1].exact /\ query[1].case_sensitive) =>
        res = search([query[1] EXCEPT !.case_sensitive = FALSE], indices, tie)

\* C14 witness: the exact, case-sensitive search for "a" over an index holding
\* "a" and "ab" returned "a" alone, although "ab" holds every character of "a".
C14_Witness ==
    /\ pc = "done" /\ query[1].exact /\ query[1].case_sensitive
    /\ query[1].limit = UsizeMax
    /\ query[1].query = <<97>>
    /\ Len(indices) = 1
    /\ {indices[1].symbols[i].name : i \in 1..Len(indices[1].symbols)} = {<<97>>, <<97, 98>>}
    /\ Len(res) = 1 /\ res[1].name = <<97>>

----------------------------------------------------------------------------
(* range_to_map_value and map_value_to_range alone *)

\* the offsets: 0..MaxOffset, the values around 2^16, and 2^31 - 1, the largest
\* the model's integers hold
Offsets ==
    (0..MaxOffset) \cup {Limb - 1, Limb, Limb + MaxOffset, (Limb \div 2 - 1) * Limb + (Limb - 1)}

InitRange ==
    /\ \E start, end \in Offsets :
          enc = [start |-> start, end |-> end, value |-> <<>>, range |-> <<>>]
    /\ input = <<>>
    /\ indices = <<>>
    /\ query = <<>>
    /\ res = <<>>
    /\ origins = <<>>
    /\ tie = FALSE
    /\ pc = "build"
    /\ NoCollector
    /\ NoWorld

\* value = range_to_map_value(start, end)
RangeToMapValue ==
    /\ enc # <<>>
    /\ enc.value = <<>>
    /\ enc' = [enc EXCEPT !.value = range_to_map_value(enc.start, enc.end)]
    /\ UNCHANGED <<searchVars, collectorVars, worldVars>>

\* (start, end) = map_value_to_range(value)
MapValueToRange ==
    /\ enc # <<>>
    /\ enc.value # <<>>
    /\ enc.range = <<>>
    /\ enc' = [enc EXCEPT !.range = map_value_to_range(enc.value)]
    /\ UNCHANGED <<searchVars, collectorVars, worldVars>>

NextRange == RangeToMapValue \/ MapValueToRange

SpecRange == InitRange /\ [][NextRange]_vars

\* C11: for start <= end, both below 2^32, map_value_to_range gives back the
\* pair that range_to_map_value encoded, and the encoded value is
\* (start << 32) | end: start in the upper 32 bits, end in the lower 32 bits
C11_RoundTrip ==
    (enc # <<>> /\ enc.start <= enc.end) =>
        /\ enc.value # <<>> =>
              /\ enc.value[1] * Limb + enc.value[2] = enc.start
              /\ enc.value[3] * Limb + enc.value[4] = enc.end
              /\ \A n \in 1..4 : enc.value[n] \in 0..(Limb - 1)
        /\ enc.range # <<>> => enc.range = <<enc.start, enc.end>>

\* a pair with both offsets above 2^16 has gone through both functions
C11_Witness ==
    /\ enc # <<>>
    /\ enc.start = Limb
    /\ enc.end = (Limb \div 2 - 1) * Limb + (Limb - 1)
    /\ enc.range = <<enc.start, enc.end>>

----------------------------------------------------------------------------
(* The database read by the symbol collector *)

(***************************************************************************)
(* The definitions of this section are the answers of the database to the  *)
(* queries of SymbolCollector.  They describe two crates:                    *)
(*                                                                         *)
(*   // crate k1, root module m0                                           *)
(*   fn f() { struct S; fn g() {} mod deep { fn h() {} struct f; }         *)
(*            impl S { fn n() {} type O; } }                               *)
(*   struct f; enum E { V } union U; const C; static ST;                   *)
(*   trait T { fn f(); type Ty; } type A; mod inner; use u8; use E::V;     *)
(*   impl f { fn f() {} const K; }                                         *)
(*   const _: () = { struct f; };                                          *)
(*   macro_rules! m                                                        *)
(*                                                                         *)
(*   // module inner of k1; the declarations written <?> have no name node  *)
(*   fn <?>() { struct a; } trait <?> { fn t(); } static <?>; const <?>;   *)
(*   fn f() {} struct <?>; macro_rules! <?>                                *)
(*                                                                         *)
(*   // crate k2, root module m2                                           *)
(*   fn f() {} struct F;                                                   *)
(*                                                                         *)
(* An Option is the empty sequence (None) or a sequence of one value.      *)
(***************************************************************************)

ModuleDefId(tag, id) == [tag |-> tag, id |-> id]

\* the ModuleIds: the modules of the crate def-maps and of the block def-maps
ModuleIds == {"m0", "inner", "m2", "blk_f", "deep", "blk_u", "blk_a"}

\* module_data.scope: declarations(), impls(), unnamed_consts(), macro_declarations()
scope(module_id) ==
    CASE module_id = "m0" ->
           [declarations |->
                << ModuleDefId("FunctionId", "fn_f"), ModuleDefId("StructId", "st_f"),
                   ModuleDefId("EnumId", "en_e"), ModuleDefId("UnionId", "un_u"),
                   ModuleDefId("ConstId", "co_c"), ModuleDefId("StaticId", "sta_s"),
                   ModuleDefId("TraitId", "tr_t"), ModuleDefId("TypeAliasId", "ty_a"),
                   ModuleDefId("ModuleId", "inner"), ModuleDefId("BuiltinType", "bt_u8"),
                   ModuleDefId("EnumVariantId", "ev_v") >>,
            impls |-> <<"impl_1">>,
            unnamed_consts |-> <<"uc_1">>,
            macro_declarations |-> <<"mac_m">>]
      [] module_id = "inner" ->
           [declarations |->
                << ModuleDefId("FunctionId", "fn_anon"), ModuleDefId("TraitId", "tr_anon"),
                   ModuleDefId("StaticId", "sta_anon"), ModuleDefId("ConstId", "co_anon"),
                   ModuleDefId("FunctionId", "fn_i"), ModuleDefId("StructId", "st_anon") >>,
            impls |-> <<>>,
            unnamed_consts |-> <<>>,
            macro_declarations |-> <<"mac_anon">>]
      [] module_id = "m2" ->
           [declarations |->
                << ModuleDefId("FunctionId", "fn_2"), ModuleDefId("StructId", "st_2") >>,
            impls |-> <<>>, unnamed_consts |-> <<>>, macro_declarations |-> <<>>]
      [] module_id = "blk_f" ->
           [declarations |->
                << ModuleDefId("StructId", "st_s"), ModuleDefId("FunctionId", "fn_g"),
                   ModuleDefId("ModuleId", "deep") >>,
            impls |-> <<"impl_2">>, unnamed_consts |-> <<>>, macro_declarations |-> <<>>]
      [] module_id = "deep" ->
           [declarations |->
                << ModuleDefId("FunctionId", "fn_h"), ModuleDefId("StructId", "st_d") >>,
            impls |-> <<>>, unnamed_consts |-> <<>>, macro_declarations |-> <<>>]
      [] module_id = "blk_u" ->
           [declarations |-> << ModuleDefId("StructId", "st_x") >>,
            impls |-> <<>>, unnamed_consts |-> <<>>, macro_declarations |-> <<>>]
      [] OTHER ->
           [declarations |-> << ModuleDefId("StructId", "st_a") >>,
            impls |-> <<>>, unnamed_consts |-> <<>>, macro_declarations |-> <<>>]

\* source.value.name() of a declaration: the text of its name node, if it has one
source_name(id) ==
    CASE id \in {"fn_f", "st_f", "tfn_f", "ifn_f", "st_d", "st_x", "fn_i", "fn_2"} -> <<<<102>>>>
      [] id = "en_e"  -> <<<<69>>>>
      [] id = "un_u"  -> <<<<85>>>>
      [] id = "co_c"  -> <<<<67>>>>
      [] id = "sta_s" -> <<<<83, 84>>>>
      [] id = "tr_t"  -> <<<<84>>>>
      [] id = "tty_y" -> <<<<84, 121>>>>
      [] id = "ty_a"  -> <<<<65>>>>
      [] id = "ick_k" -> <<<<75>>>>
      [] id = "mac_m" -> <<<<109>>>>
      [] id = "st_s"  -> <<<<83>>>>
      [] id = "fn_g"  -> <<<<103>>>>
      [] id = "fn_h"  -> <<<<104>>>>
      [] id = "tfn_t" -> <<<<116>>>>
      [] id = "st_a"  -> <<<<97>>>>
      [] id = "st_2"  -> <<<<70>>>>
      [] id = "ifn_n" -> <<<<110>>>>
      [] id = "ity_o" -> <<<<79>>>>
      [] OTHER -> <<>>

\* module_data.origin.declaration() and the name of that node: "inner" and "deep"
\* are declared with `mod`; crate roots and block modules have no declaration
module_declaration_name(module_id) ==
    CASE module_id = "inner" -> <<<<105, 110, 110, 101, 114>>>>
      [] module_id = "deep"  -> <<<<100, 101, 101, 112>>>>
      [] OTHER -> <<>>

\* loc.container of an associated item
AssocContainerId(id) ==
    CASE id \in {"fn_f", "co_c", "ty_a"} -> [tag |-> "ModuleId", id |-> "m0"]
      [] id \in {"fn_anon", "co_anon", "fn_i"} -> [tag |-> "ModuleId", id |-> "inner"]
      [] id = "fn_2" -> [tag |-> "ModuleId", id |-> "m2"]
      [] id = "fn_g" -> [tag |-> "ModuleId", id |-> "blk_f"]
      [] id = "fn_h" -> [tag |-> "ModuleId", id |-> "deep"]
      [] id \in {"tfn_f", "tty_y"} -> [tag |-> "TraitId", id |-> "tr_t"]
      [] id = "tfn_t" -> [tag |-> "TraitId", id |-> "tr_anon"]
      [] id \in {"ifn_n", "ity_o"} -> [tag |-> "ImplId", id |-> "impl_2"]
      [] OTHER -> [tag |-> "ImplId", id |-> "impl_1"]

\* db.body(body_id).blocks(): the block def-maps of a body, each with its modules
body_blocks(body_id) ==
    CASE body_id = "fn_f"    -> << <<"blk_f", "deep">> >>
      [] body_id = "uc_1"    -> << <<"blk_u">> >>
      [] body_id = "fn_anon" -> << <<"blk_a">> >>
      [] OTHER -> <<>>

\* db.trait_data(trait_id): name.as_text() and items; the name of a trait
\* without a name node is the text "[missing name]"
trait_data(trait_id) ==
    IF trait_id = "tr_t"
    THEN [name  |-> <<<<84>>>>,
          items |-> << [tag |-> "FunctionId", id |-> "tfn_f"],
                       [tag |-> "TypeAliasId", id |-> "tty_y"] >>]
    ELSE [name  |-> << <<91, 109, 105, 115, 115, 105, 110, 103, 32, 110, 97, 109, 101, 93>> >>,
          items |-> << [tag |-> "FunctionId", id |-> "tfn_t"] >>]

\* db.impl_data(impl_id).items
impl_data(impl_id) ==
    IF impl_id = "impl_1"
    THEN [items |-> << [tag |-> "FunctionId", id |-> "ifn_f"],
                       [tag |-> "ConstId", id |-> "ick_k"] >>]
    ELSE [items |-> << [tag |-> "FunctionId", id |-> "ifn_n"],
                       [tag |-> "TypeAliasId", id |-> "ity_o"] >>]

----------------------------------------------------------------------------
(* SymbolCollector *)

\* a FileSymbol with its container; the location is the declaration
FileSymbolIn(name, kind, loc, container_name) ==
    [name |-> name, kind |-> kind, loc |-> loc, container_name |-> container_name]

\* SymbolCollectorWork; parent is None for every item but a Module under a body
SymbolCollectorWork(tag, id, parent) == [tag |-> tag, id |-> id, parent |-> parent]

\* the SymbolCollector constructed by collect
NewCollector(module_id) ==
    [symbols |-> <<>>,
     container_name_stack |-> <<>>,
     work |-> <<SymbolCollectorWork("Module", module_id, <<>>)>>]

\* self.work.push(work)
work_push(self, item) == [self EXCEPT !.work = Append(@, item)]

\* push_file_symbol: the record is pushed if the closure gave Some
push_file_symbol(self, file_symbol) ==
    IF file_symbol = <<>> THEN self
    ELSE [self EXCEPT !.symbols = Append(@, file_symbol[1])]

\* current_container_name: container_name_stack.last().cloned()
current_container_name(self) ==
    IF self.container_name_stack = <<>> THEN <<>>
    ELSE <<self.container_name_stack[Len(self.container_name_stack)]>>

\* def_with_body_id_name: the name node of the function, static or const
def_with_body_id_name(body_id) == source_name(body_id)

\* container_name of push_decl_assoc
container_name(container) ==
    CASE container.tag = "ModuleId" -> module_declaration_name(container.id)
      [] container.tag = "TraitId"  -> source_name(container.id)
      [] OTHER -> <<>>

\* push_decl_assoc
push_decl_assoc(self, id, kind) ==
    LET name_node == source_name(id)
        from_db   == container_name(AssocContainerId(id))
        container == IF from_db # <<>> THEN from_db ELSE current_container_name(self)
    IN  push_file_symbol(self,
            IF name_node = <<>> THEN <<>>
            ELSE <<FileSymbolIn(name_node[1], kind, id, container)>>)

\* push_decl
push_decl(self, id, kind) ==
    LET name_node == source_name(id)
    IN  push_file_symbol(self,
            IF name_node = <<>> THEN <<>>
            ELSE <<FileSymbolIn(name_node[1], kind, id, current_container_name(self))>>)

\* push_module
push_module(self, module_id) ==
    LET name_node == module_declaration_name(module_id)
    IN  push_file_symbol(self,
            IF name_node = <<>> THEN <<>>
            ELSE <<FileSymbolIn(name_node[1], "Module", module_id, current_container_name(self))>>)

\* push_decl_macro
push_decl_macro(self, macro_def) ==
    LET name == source_name(macro_def)
    IN  push_file_symbol(self,
            IF name = <<>> THEN <<>>
            ELSE <<FileSymbolIn(name[1], "Macro", macro_def, current_container_name(self))>>)

\* push_assoc_item
push_assoc_item(self, assoc_item_id) ==
    CASE assoc_item_id.tag = "FunctionId" -> push_decl_assoc(self, assoc_item_id.id, "Function")
      [] assoc_item_id.tag = "ConstId"    -> push_decl_assoc(self, assoc_item_id.id, "Const")
      [] OTHER                            -> push_decl_assoc(self, assoc_item_id.id, "TypeAlias")

\* one arm of collect_from_module with the Body item of a static left out
CollectDeclarationStaticNoBody(self, module_def_id) ==
    LET id == module_def_id.id
    IN  CASE module_def_id.tag = "ModuleId" -> push_module(self, id)
          [] module_def_id.tag = "FunctionId" ->
                work_push(push_decl_assoc(self, id, "Function"), SymbolCollectorWork("Body", id, <<>>))
          [] module_def_id.tag = "StructId" -> push_decl(self, id, "Struct")
          [] module_def_id.tag = "EnumId"   -> push_decl(self, id, "Enum")
          [] module_def_id.tag = "UnionId"  -> push_decl(self, id, "Union")
          [] module_def_id.tag = "ConstId" ->
                work_push(push_decl_assoc(self, id, "Const"), SymbolCollectorWork("Body", id, <<>>))
          [] module_def_id.tag = "StaticId" -> push_decl(self, id, "Static")
          [] module_def_id.tag = "TraitId" ->
                work_push(push_decl(self, id, "Trait"), SymbolCollectorWork("Trait", id, <<>>))
          [] module_def_id.tag = "TypeAliasId" -> push_decl_assoc(self, id, "TypeAlias")
          [] OTHER -> self

\* one arm of collect_from_module enqueuing work only for a declaration with a name
CollectDeclarationNamedOnly(self, module_def_id) ==
    LET id    == module_def_id.id
        named == source_name(id) # <<>>
    IN  CASE module_def_id.tag = "ModuleId" -> push_module(self, id)
          [] module_def_id.tag = "FunctionId" ->
                IF named
                THEN work_push(push_decl_assoc(self, id, "Function"),
                               SymbolCollectorWork("Body", id, <<>>))
                ELSE self
          [] module_def_id.tag = "StructId" -> push_decl(self, id, "Struct")
          [] module_def_id.tag = "EnumId"   -> push_decl(self, id, "Enum")
          [] module_def_id.tag = "UnionId"  -> push_decl(self, id, "Union")
          [] module_def_id.tag = "ConstId" ->
                IF named
                THEN work_push(push_decl_assoc(self, id, "Const"),
                               SymbolCollectorWork("Body", id, <<>>))
                ELSE self
          [] module_def_id.tag = "StaticId" ->
                IF named
                THEN work_push(push_decl(self, id, "Static"), SymbolCollectorWork("Body", id, <<>>))
                ELSE self
          [] module_def_id.tag = "TraitId" ->
                IF named
                THEN work_push(push_decl(self, id, "Trait"), SymbolCollectorWork("Trait", id, <<>>))
                ELSE self
          [] module_def_id.tag = "TypeAliasId" -> push_decl_assoc(self, id, "TypeAlias")
          [] OTHER -> self

\* one arm of the match of collect_from_module over scope.declarations()
collect_declaration(self, module_def_id) ==
    LET id == module_def_id.id
    IN  CASE module_def_id.tag = "ModuleId" -> push_module(self, id)
          [] module_def_id.tag = "FunctionId" ->
                work_push(push_decl_assoc(self, id, "Function"), SymbolCollectorWork("Body", id, <<>>))
          [] module_def_id.tag = "StructId" -> push_decl(self, id, "Struct")
          [] module_def_id.tag = "EnumId"   -> push_decl(self, id, "Enum")
          [] module_def_id.tag = "UnionId"  -> push_decl(self, id, "Union")
          [] module_def_id.tag = "ConstId" ->
                work_push(push_decl_assoc(self, id, "Const"), SymbolCollectorWork("Body", id, <<>>))
          [] module_def_id.tag = "StaticId" ->
                work_push(push_decl(self, id, "Static"), SymbolCollectorWork("Body", id, <<>>))
          [] module_def_id.tag = "TraitId" ->
                work_push(push_decl(self, id, "Trait"), SymbolCollectorWork("Trait", id, <<>>))
          [] module_def_id.tag = "TypeAliasId" -> push_decl_assoc(self, id, "TypeAlias")
          [] OTHER -> self

\* for module_def_id in scope.declarations()
RECURSIVE collect_declarations(_, _)
collect_declarations(self, declarations) ==
    IF declarations = <<>> THEN self
    ELSE collect_declarations(collect_declaration(self, Head(declarations)), Tail(declarations))

\* for item in items: push_assoc_item(item)
RECURSIVE collect_assoc_items(_, _)
collect_assoc_items(self, items) ==
    IF items = <<>> THEN self
    ELSE collect_assoc_items(push_assoc_item(self, Head(items)), Tail(items))

\* collect_from_impl
collect_from_impl(self, impl_id) == collect_assoc_items(self, impl_data(impl_id).items)

\* collect_from_trait
collect_from_trait(self, trait_id) == collect_assoc_items(self, trait_data(trait_id).items)

\* the impls of a scope collected at once, inside the module's with_container_name
RECURSIVE CollectImplsInline(_, _)
CollectImplsInline(self, impls) ==
    IF impls = <<>> THEN self
    ELSE CollectImplsInline(collect_from_impl(self, Head(impls)), Tail(impls))

\* for impl_id in scope.impls()
RECURSIVE collect_impls(_, _)
collect_impls(self, impls) ==
    IF impls = <<>> THEN self
    ELSE collect_impls(work_push(self, SymbolCollectorWork("Impl", Head(impls), <<>>)), Tail(impls))

\* for const_id in scope.unnamed_consts()
RECURSIVE collect_unnamed_consts(_, _)
collect_unnamed_consts(self, consts) ==
    IF consts = <<>> THEN self
    ELSE collect_unnamed_consts(
             work_push(self, SymbolCollectorWork("Body", Head(consts), <<>>)), Tail(consts))

\* for macro_def_id in scope.macro_declarations()
RECURSIVE collect_macros(_, _)
collect_macros(self, macros) ==
    IF macros = <<>> THEN self
    ELSE collect_macros(push_decl_macro(self, Head(macros)), Tail(macros))

\* collect_from_module
collect_from_module(self, module_id) ==
    LET s1 == collect_declarations(self, scope(module_id).declarations)
        s2 == collect_impls(s1, scope(module_id).impls)
        s3 == collect_unnamed_consts(s2, scope(module_id).unnamed_consts)
    IN  collect_macros(s3, scope(module_id).macro_declarations)

\* the Module items of one block def-map
RECURSIVE collect_def_map(_, _, _)
collect_def_map(self, modules, parent) ==
    IF modules = <<>> THEN self
    ELSE collect_def_map(
             work_push(self, SymbolCollectorWork("Module", Head(modules), parent)),
             Tail(modules), parent)

\* the loop of collect_from_body over the blocks, enqueuing the modules without a parent
RECURSIVE CollectBlocksNoParent(_, _, _)
CollectBlocksNoParent(self, blocks, body_id) ==
    IF blocks = <<>> THEN self
    ELSE CollectBlocksNoParent(collect_def_map(self, Head(blocks), <<>>), Tail(blocks), body_id)

\* for (_, def_map) in body.blocks(): for (id, _) in def_map.modules()
RECURSIVE collect_blocks(_, _, _)
collect_blocks(self, blocks, body_id) ==
    IF blocks = <<>> THEN self
    ELSE collect_blocks(collect_def_map(self, Head(blocks), <<body_id>>), Tail(blocks), body_id)

\* collect_from_body
collect_from_body(self, body_id) == collect_blocks(self, body_blocks(body_id), body_id)

\* the container name do_work computes for a Module or Trait item
work_container_name(item) ==
    IF item.tag = "Module"
    THEN IF item.parent = <<>> THEN <<>> ELSE def_with_body_id_name(item.parent[1])
    ELSE trait_data(item.id).name

\* with_container_name before f: the name is pushed if there is one
container_name_push(self, name) ==
    IF name = <<>> THEN self
    ELSE [self EXCEPT !.container_name_stack = Append(@, name[1])]

\* with_container_name after f, leaving the name on the stack
ContainerNameKeep(self, name) == self

\* with_container_name after f: the name is popped if one was pushed
container_name_pop(self, name) ==
    IF name = <<>> THEN self
    ELSE [self EXCEPT !.container_name_stack = SubSeq(@, 1, Len(@) - 1)]

\* do_work after the poll: the match on the work item
do_work(self, item) ==
    CASE item.tag = "Module" ->
           container_name_pop(
               collect_from_module(container_name_push(self, work_container_name(item)), item.id),
               work_container_name(item))
      [] item.tag = "Trait" ->
           container_name_pop(
               collect_from_trait(container_name_push(self, work_container_name(item)), item.id),
               work_container_name(item))
      [] item.tag = "Body" -> collect_from_body(self, item.id)
      [] OTHER -> collect_from_impl(self, item.id)

\* the loop of collect when the database is not cancelled
RECURSIVE collect_loop(_)
collect_loop(self) ==
    IF self.work = <<>> THEN self.symbols
    ELSE collect_loop(do_work([self EXCEPT !.work = SubSeq(@, 1, Len(@) - 1)],
                              self.work[Len(self.work)]))

\* SymbolCollector::collect when the database is not cancelled
collect(module_id) == collect_loop(NewCollector(module_id))

----------------------------------------------------------------------------
(* Specification of one collection: module_symbols(db, module_id) *)

\* the positions of the collector at which a collection is still running
Running == {"loop", "popped", "match", "inner", "leave"}

InitCollect ==
    /\ \E module_id \in ModuleIds : symbol_collector = NewCollector(module_id)
    /\ cancelled = FALSE
    /\ cur = <<>>
    /\ cpc = "loop"
    /\ mark = <<0, 0>>
    /\ polled = FALSE
    /\ module_index = <<>>
    /\ trace = <<<<"push", symbol_collector.work[1]>>>>
    /\ input = <<>>
    /\ indices = <<>>
    /\ query = <<>>
    /\ res = <<>>
    /\ origins = <<>>
    /\ tie = FALSE
    /\ pc = "build"
    /\ enc = <<>>
    /\ NoWorld

\* the work items pushed between two values of the collector, as events
Pushes(before, after) ==
    [n \in 1..(Len(after.work) - Len(before.work)) |->
        <<"push", after.work[Len(before.work) + n]>>]

\* another thread changes an input of the database: the flag is set
Cancel ==
    /\ cpc \in Running
    /\ ~cancelled
    /\ cancelled' = TRUE
    /\ UNCHANGED <<symbol_collector, cur, cpc, mark, polled, module_index, trace>>
    /\ UNCHANGED <<searchVars, enc, worldVars>>

\* a loop that polls the flag and then pops
PopAfterPoll ==
    /\ cpc = "loop"
    /\ symbol_collector.work # <<>>
    /\ cur' = <<symbol_collector.work[Len(symbol_collector.work)]>>
    /\ symbol_collector' = [symbol_collector EXCEPT !.work = SubSeq(@, 1, Len(@) - 1)]
    /\ mark' = <<Len(symbol_collector.symbols), Len(symbol_collector.work) - 1>>
    /\ cpc' = "popped"
    /\ polled' = TRUE
    /\ trace' = Append(trace, <<"pop", cur'[1]>>)
    /\ UNCHANGED <<cancelled, module_index>>
    /\ UNCHANGED <<searchVars, enc, worldVars>>

\* a loop taking the oldest item of the work stack
PopFirst ==
    /\ cpc = "loop"
    /\ symbol_collector.work # <<>>
    /\ cur' = <<Head(symbol_collector.work)>>
    /\ symbol_collector' = [symbol_collector EXCEPT !.work = Tail(@)]
    /\ mark' = <<Len(symbol_collector.symbols), Len(symbol_collector.work) - 1>>
    /\ cpc' = "popped"
    /\ trace' = Append(trace, <<"pop", cur'[1]>>)
    /\ UNCHANGED <<cancelled, polled, module_index>>
    /\ UNCHANGED <<searchVars, enc, worldVars>>

\* while let Some(work) = symbol_collector.work.pop()
Pop ==
    /\ cpc = "loop"
    /\ symbol_collector.work # <<>>
    /\ cur' = <<symbol_collector.work[Len(symbol_collector.work)]>>
    /\ symbol_collector' = [symbol_collector EXCEPT !.work = SubSeq(@, 1, Len(@) - 1)]
    /\ mark' = <<Len(symbol_collector.symbols), Len(symbol_collector.work) - 1>>
    /\ cpc' = "popped"
    /\ trace' = Append(trace, <<"pop", cur'[1]>>)
    /\ UNCHANGED <<cancelled, polled, module_index>>
    /\ UNCHANGED <<searchVars, enc, worldVars>>

\* the stack is empty: collect returns symbol_collector.symbols
Return ==
    /\ cpc = "loop"
    /\ symbol_collector.work = <<>>
    /\ cpc' = "returned"
    /\ UNCHANGED <<cancelled, symbol_collector, cur, mark, polled, module_index, trace>>
    /\ UNCHANGED <<searchVars, enc, worldVars>>

\* do_work: self.db.unwind_if_cancelled()
Poll ==
    /\ cpc = "popped"
    /\ polled' = TRUE
    /\ cpc' = IF cancelled THEN "unwound" ELSE "match"
    /\ UNCHANGED <<cancelled, symbol_collector, cur, mark, module_index, trace>>
    /\ UNCHANGED <<searchVars, enc, worldVars>>

\* do_work on a Module or Trait item: with_container_name pushes the name
Enter ==
    /\ cpc = "match"
    /\ cur[1].tag \in {"Module", "Trait"}
    /\ symbol_collector' = container_name_push(symbol_collector, work_container_name(cur[1]))
    /\ cpc' = "inner"
    /\ UNCHANGED <<cancelled, cur, mark, polled, module_index, trace>>
    /\ UNCHANGED <<searchVars, enc, worldVars>>

\* the closure of with_container_name, unwinding if a database query sees the flag
CollectFromCancellable ==
    /\ cpc = "inner"
    /\ IF cancelled
       THEN cpc' = "unwound" /\ UNCHANGED <<symbol_collector, trace>>
       ELSE /\ symbol_collector' =
                  IF cur[1].tag = "Module"
                  THEN collect_from_module(symbol_collector, cur[1].id)
                  ELSE collect_from_trait(symbol_collector, cur[1].id)
            /\ trace' = trace \o Pushes(symbol_collector, symbol_collector')
            /\ cpc' = "leave"
    /\ UNCHANGED <<cancelled, cur, mark, polled, module_index>>
    /\ UNCHANGED <<searchVars, enc, worldVars>>

\* the closure of with_container_name: collect_from_module or collect_from_trait
CollectFrom ==
    /\ cpc = "inner"
    /\ symbol_collector' =
          IF cur[1].tag = "Module"
          THEN collect_from_module(symbol_collector, cur[1].id)
          ELSE collect_from_trait(symbol_collector, cur[1].id)
    /\ trace' = trace \o Pushes(symbol_collector, symbol_collector')
    /\ cpc' = "leave"
    /\ UNCHANGED <<cancelled, cur, mark, polled, module_index>>
    /\ UNCHANGED <<searchVars, enc, worldVars>>

\* with_container_name pops the name it pushed; the item is finished
Leave ==
    /\ cpc = "leave"
    /\ symbol_collector' = container_name_pop(symbol_collector, work_container_name(cur[1]))
    /\ cpc' = "loop"
    /\ polled' = FALSE
    /\ trace' = Append(trace, <<"done", cur[1]>>)
    /\ UNCHANGED <<cancelled, cur, mark, module_index>>
    /\ UNCHANGED <<searchVars, enc, worldVars>>

\* do_work on a Body item
CollectFromBody ==
    /\ cpc = "match"
    /\ cur[1].tag = "Body"
    /\ symbol_collector' = collect_from_body(symbol_collector, cur[1].id)
    /\ cpc' = "loop"
    /\ polled' = FALSE
    /\ trace' = Append(trace \o Pushes(symbol_collector, symbol_collector'), <<"done", cur[1]>>)
    /\ UNCHANGED <<cancelled, cur, mark, module_index>>
    /\ UNCHANGED <<searchVars, enc, worldVars>>

\* do_work on an Impl item
CollectFromImpl ==
    /\ cpc = "match"
    /\ cur[1].tag = "Impl"
    /\ symbol_collector' = collect_from_impl(symbol_collector, cur[1].id)
    /\ cpc' = "loop"
    /\ polled' = FALSE
    /\ trace' = Append(trace \o Pushes(symbol_collector, symbol_collector'), <<"done", cur[1]>>)
    /\ UNCHANGED <<cancelled, cur, mark, module_index>>
    /\ UNCHANGED <<searchVars, enc, worldVars>>

\* module_symbols: Arc::new(SymbolIndex::new(symbols))
ModuleSymbols ==
    /\ cpc = "returned"
    /\ module_index' = <<SymbolIndexNew(symbol_collector.symbols)>>
    /\ cpc' = "indexed"
    /\ UNCHANGED <<cancelled, symbol_collector, cur, mark, polled, trace>>
    /\ UNCHANGED <<searchVars, enc, worldVars>>

NextCollect ==
    \/ Cancel \/ Pop \/ Return \/ Poll \/ Enter \/ CollectFrom \/ Leave
    \/ CollectFromBody \/ CollectFromImpl \/ ModuleSymbols

SpecCollect == InitCollect /\ [][NextCollect]_vars

\* the steps of collect: the loop and do_work
NextRun ==
    \/ Pop \/ Return \/ Poll \/ Enter \/ CollectFrom \/ Leave
    \/ CollectFromBody \/ CollectFromImpl

\* the thread that runs collect keeps running until collect returns or unwinds
SpecCollectLive == SpecCollect /\ WF_vars(NextRun)

----------------------------------------------------------------------------
(* Properties of the collector *)

\* the records pushed since the current item was popped
NewSymbols ==
    SubSeq(symbol_collector.symbols, mark[1] + 1, Len(symbol_collector.symbols))

\* the work items pushed since the current item was popped
NewWork == SubSeq(symbol_collector.work, mark[2] + 1, Len(symbol_collector.work))

\* the positions at which the popped item is being processed
Processing == {"match", "inner", "leave"}

\* C15 as stated: the flag is polled before each pop, so whenever an item has
\* just been removed from the work stack a poll has been made since the
\* previous item finished.
C15_PollBeforePop == cpc = "popped" => polled

\* C15: the flag is polled after each pop and before the popped item is
\* processed: when an item has just been popped no poll has been made since the
\* previous item finished, an item is processed only after such a poll, and
\* once the poll sees the flag set the popped item is not processed (no record
\* and no work item is added, no name is pushed) and nothing more is popped.
C15_PollAfterPop ==
    /\ cpc = "popped" => ~polled
    /\ cpc \in Processing => polled
    /\ cpc = "unwound" =>
          /\ polled /\ cancelled /\ cur # <<>>
          /\ NewSymbols = <<>> /\ NewWork = <<>>
          /\ symbol_collector.container_name_stack = <<>>

\* C15 witness: the collection of m0 was aborted by the poll made for the
\* Trait item of T, with records collected and work items left on the stack.
C15_Witness ==
    /\ cpc = "unwound"
    /\ cur = <<SymbolCollectorWork("Trait", "tr_t", <<>>)>>
    /\ symbol_collector.symbols # <<>>
    /\ symbol_collector.work # <<>>

C17_ContainerStack ==
    /\ Len(symbol_collector.container_name_stack) <= 1
    /\ cpc \in {"loop", "popped", "match", "returned", "indexed", "unwound"} =>
          symbol_collector.container_name_stack = <<>>

\* C17 witness: the Module item of the block of fn f, processed under the name
\* "f", is finished and the stack is empty again.
C17_Witness ==
    /\ cpc = "loop"
    /\ cur = <<SymbolCollectorWork("Module", "blk_f", <<"fn_f">>)>>
    /\ \E n \in 1..Len(symbol_collector.symbols) :
          symbol_collector.symbols[n].container_name = <<<<102>>>>
    /\ symbol_collector.container_name_stack = <<>>

\* the kind of the record a declaration emits, by the table of collect_from_module
EmittedKind(tag) ==
    CASE tag = "FunctionId"  -> <<"Function">>
      [] tag = "ConstId"     -> <<"Const">>
      [] tag = "StaticId"    -> <<"Static">>
      [] tag = "TraitId"     -> <<"Trait">>
      [] tag = "StructId"    -> <<"Struct">>
      [] tag = "EnumId"      -> <<"Enum">>
      [] tag = "UnionId"     -> <<"Union">>
      [] tag = "TypeAliasId" -> <<"TypeAlias">>
      [] tag = "ModuleId"    -> <<"Module">>
      [] OTHER -> <<>>

\* the work item a declaration enqueues, by the table of collect_from_module
EnqueuedTag(tag) ==
    CASE tag \in {"FunctionId", "ConstId", "StaticId"} -> <<"Body">>
      [] tag = "TraitId" -> <<"Trait">>
      [] OTHER -> <<>>

\* the declaration has a name node
HasName(module_def_id) ==
    IF module_def_id.tag = "ModuleId"
    THEN module_declaration_name(module_def_id.id) # <<>>
    ELSE source_name(module_def_id.id) # <<>>

\* the new records located at a declaration, and the new work items for it
RecordsAt(id) == {n \in 1..Len(NewSymbols) : NewSymbols[n].loc = id}
WorkFor(id) == {n \in 1..Len(NewWork) : NewWork[n].id = id}

\* a Module item has gone through collect_from_module
AfterCollectFromModule == cpc = "leave" /\ cur[1].tag = "Module"

StackKinds == {"Struct", "Enum", "Union", "Static", "Trait", "Module", "Macro"}

\* the modules of the block def-maps of a body
RECURSIVE BlockModules(_)
BlockModules(blocks) ==
    IF blocks = <<>> THEN <<>> ELSE Head(blocks) \o BlockModules(Tail(blocks))

\* C19: for every module of every block def-map of a body b, collect_from_body
\* enqueues one Module item with that module and parent b, and nothing else.
\* While such an item is processed the declared name of b, if it has one, is
\* the top of the container stack during the whole of collect_from_module, and
\* the records that take their container from the stack carry that name (none
\* if b has no name).
C19_BlockModules ==
    /\ (cpc = "loop" /\ cur # <<>> /\ cur[1].tag = "Body") =>
          LET modules == BlockModules(body_blocks(cur[1].id))
          IN  /\ NewSymbols = <<>>
              /\ NewWork = [n \in 1..Len(modules) |->
                               SymbolCollectorWork("Module", modules[n], <<cur[1].id>>)]
    /\ (cpc \in {"inner", "leave"} /\ cur[1].tag = "Module" /\ cur[1].parent # <<>>) =>
          LET name == source_name(cur[1].parent[1])
          IN  /\ name # <<>> =>
                    /\ symbol_collector.container_name_stack # <<>>
                    /\ current_container_name(symbol_collector) = name
              /\ name = <<>> => symbol_collector.container_name_stack = <<>>
              /\ \A n \in 1..Len(NewSymbols) :
                    (\/ NewSymbols[n].kind \in StackKinds
                     \/ container_name(AssocContainerId(NewSymbols[n].loc)) = <<>>)
                        => NewSymbols[n].container_name = name

\* C19 witness: the Module item of the block of fn f, enqueued with parent f, has
\* gone through collect_from_module: struct S, fn g and mod deep carry the
\* container "f".
C19_Witness ==
    /\ cpc = "leave"
    /\ cur = <<SymbolCollectorWork("Module", "blk_f", <<"fn_f">>)>>
    /\ Len(NewSymbols) = 3
    /\ \A n \in 1..3 : NewSymbols[n].container_name = <<<<102>>>>

\* C20: a declaration without a name node produces no record and no error:
\* collect_from_module goes on, the declarations with a name still produce their
\* record, and the Body item of a nameless function, const or static and the
\* Trait item of a nameless trait are enqueued all the same.  No record is ever
\* located at a nameless declaration.
C20_Nameless ==
    /\ \A n \in 1..Len(symbol_collector.symbols) :
          \/ source_name(symbol_collector.symbols[n].loc) # <<>>
          \/ module_declaration_name(symbol_collector.symbols[n].loc) # <<>>
    /\ AfterCollectFromModule =>
          LET sc == scope(cur[1].id)
              D  == {sc.declarations[i] : i \in 1..Len(sc.declarations)}
          IN  \A d \in D :
                 /\ ~HasName(d) =>
                       /\ RecordsAt(d.id) = {}
                       /\ EnqueuedTag(d.tag) # <<>> =>
                             \E n \in 1..Len(NewWork) :
                                 NewWork[n] = SymbolCollectorWork(EnqueuedTag(d.tag)[1], d.id, <<>>)
                 /\ (HasName(d) /\ EmittedKind(d.tag) # <<>>) => RecordsAt(d.id) # {}

\* C20 witness: collect_from_module has run on the module inner, whose function,
\* trait, static, const and struct without a name gave no record; fn f, declared
\* after them, gave its record, and the five work items are enqueued.
C20_Witness ==
    /\ AfterCollectFromModule
    /\ cur[1].id = "inner"
    /\ Len(NewSymbols) = 1 /\ NewSymbols[1].loc = "fn_i"
    /\ [n \in 1..Len(NewWork) |-> NewWork[n].id] =
          <<"fn_anon", "tr_anon", "sta_anon", "co_anon", "fn_i">>

----------------------------------------------------------------------------
(* world_symbols and index_resolve *)

(***************************************************************************)
(* Three source roots: r1 holds the crate k1 (modules m0 and inner), r2 the *)
(* crate k2 (module m2) and the file lib.rs, r3 the files a.rs and b.rs.   *)
(* The host registers any of r1, r2 as local and any of r2, r3 as library. *)
(***************************************************************************)

\* db.source_root_crates(root)
source_root_crates(root) ==
    CASE root = "r1" -> <<"k1">>
      [] root = "r2" -> <<"k2">>
      [] OTHER -> <<>>

\* module_ids_for_crate: the modules of the crate def-map
module_ids_for_crate(krate) == IF krate = "k1" THEN <<"m0", "inner">> ELSE <<"m2">>

\* db.source_root(root_id).iter(): the files of a root
source_root_files(root_id) ==
    CASE root_id = "r2" -> <<"lib.rs">>
      [] root_id = "r3" -> <<"a.rs", "b.rs">>
      [] OTHER -> <<>>

\* an extractor giving one function "f" for every file
SourceFileToOneSymbol(file_id) == <<FileSymbol(<<102>>, "Function", file_id)>>

\* source_file_to_file_symbols: vec![] for every file
source_file_to_file_symbols(file_id) == <<>>

\* files.flat_map(source_file_to_file_symbols).collect()
RECURSIVE flat_map_files(_)
flat_map_files(files) ==
    IF files = <<>> THEN <<>>
    ELSE source_file_to_file_symbols(Head(files)) \o flat_map_files(Tail(files))

\* SymbolIndex::for_files
for_files(files) == SymbolIndexNew(flat_map_files(files))

\* module_symbols when the database is not cancelled
module_symbols(module_id) == SymbolIndexNew(collect(module_id))

\* for &krate in crates.iter(): module_ids.extend(module_ids_for_crate(db, krate))
RECURSIVE crates_module_ids(_)
crates_module_ids(crates) ==
    IF crates = <<>> THEN <<>>
    ELSE module_ids_for_crate(Head(crates)) \o crates_module_ids(Tail(crates))

\* for &root in db.local_roots().iter()
RECURSIVE roots_module_ids(_)
roots_module_ids(roots) ==
    IF roots = <<>> THEN <<>>
    ELSE crates_module_ids(source_root_crates(Head(roots))) \o roots_module_ids(Tail(roots))

\* a buf holding the library indexes and the module indexes, whatever the flag
WorldBufSrcBoth(libs, local, library) ==
    [n \in 1..Len(library) |-> <<"library", library[n]>>]
        \o [n \in 1..Len(roots_module_ids(local)) |-> <<"module", roots_module_ids(local)[n]>>]

\* where world_symbols takes the indexes of buf from: the values of
\* library_symbols if query.libs, the module_symbols of the local modules if not
world_buf_src(libs, local, library) ==
    IF libs
    THEN [n \in 1..Len(library) |-> <<"library", library[n]>>]
    ELSE [n \in 1..Len(roots_module_ids(local)) |-> <<"module", roots_module_ids(local)[n]>>]

\* the indexes of buf: library_symbols()[root] or module_symbols(module_id)
world_buf(src) ==
    [n \in 1..Len(src) |->
        IF src[n][1] = "library"
        THEN for_files(source_root_files(src[n][2]))
        ELSE module_symbols(src[n][2])]

\* the sequences without repetition over a set of at most two roots
RootOrders(S) ==
    {s \in UNION {[1..n -> S] : n \in 0..2} : \A i, j \in 1..Len(s) : i # j => s[i] # s[j]}

\* the query strings given to world_symbols and index_resolve: "", "f", "F", "a"
WorldQueryStrings == {<<>>, <<102>>, <<70>>, <<97>>}

InitWorld ==
    /\ local_roots \in RootOrders({"r1", "r2"})
    /\ library_roots \in RootOrders({"r2", "r3"})
    /\ buf_src = <<>>
    /\ par_iter = [krate |-> <<>>, module_ids |-> <<>>, jobs |-> <<>>, order |-> <<>>]
    /\ input = <<>>
    /\ indices = <<>>
    /\ query = <<>>
    /\ res = <<>>
    /\ origins = <<>>
    /\ tie = FALSE
    /\ pc = "build"
    /\ enc = <<>>
    /\ NoCollector

\* Query::new(query) by a caller of world_symbols
WorldNew ==
    /\ pc = "build"
    /\ \E q \in WorldQueryStrings : query' = <<QueryNew(q)>>
    /\ pc' = "query"
    /\ UNCHANGED <<input, indices, res, origins, tie>>
    /\ UNCHANGED <<enc, collectorVars, worldVars>>

\* Query::libs
Libs ==
    /\ pc = "query"
    /\ query' = <<[query[1] EXCEPT !.libs = TRUE]>>
    /\ UNCHANGED <<input, indices, res, origins, tie, pc>>
    /\ UNCHANGED <<enc, collectorVars, worldVars>>

\* world_symbols(db, query)
WorldSymbols ==
    /\ pc = "query"
    /\ buf_src' = world_buf_src(query[1].libs, local_roots, library_roots)
    /\ indices' = world_buf(buf_src')
    /\ \E tb \in BOOLEAN :
          /\ tie' = (tb /\ HasTie(query[1], indices'))
          /\ origins' = SearchOrigins(query[1], indices', tie')
          /\ res' = Records(indices', origins')
    /\ pc' = "done"
    /\ UNCHANGED <<input, query, enc, collectorVars, local_roots, library_roots, par_iter>>

\* index_resolve without the call of exact
IndexResolveFuzzy ==
    /\ pc = "build"
    /\ \E name \in WorldQueryStrings :
          query' = <<[QueryNew(name) EXCEPT !.limit = 4]>>
    /\ buf_src' = world_buf_src(query'[1].libs, local_roots, library_roots)
    /\ indices' = world_buf(buf_src')
    /\ \E tb \in BOOLEAN :
          /\ tie' = (tb /\ HasTie(query'[1], indices'))
          /\ origins' = SearchOrigins(query'[1], indices', tie')
          /\ res' = Records(indices', origins')
    /\ pc' = "resolved"
    /\ UNCHANGED <<input, enc, collectorVars, local_roots, library_roots, par_iter>>

\* index_resolve(db, name)
IndexResolve ==
    /\ pc = "build"
    /\ \E name \in WorldQueryStrings :
          query' = <<[QueryNew(name) EXCEPT !.exact = TRUE, !.limit = 4]>>
    /\ buf_src' = world_buf_src(query'[1].libs, local_roots, library_roots)
    /\ indices' = world_buf(buf_src')
    /\ \E tb \in BOOLEAN :
          /\ tie' = (tb /\ HasTie(query'[1], indices'))
          /\ origins' = SearchOrigins(query'[1], indices', tie')
          /\ res' = Records(indices', origins')
    /\ pc' = "resolved"
    /\ UNCHANGED <<input, enc, collectorVars, local_roots, library_roots, par_iter>>

NextWorld ==
    \/ WorldNew \/ OnlyTypes \/ Exact \/ CaseSensitive \/ Limit \/ Libs
    \/ WorldSymbols \/ IndexResolve

SpecWorld == InitWorld /\ [][NextWorld]_vars

----------------------------------------------------------------------------
(* The parallel map of world_symbols and crate_symbols *)

(***************************************************************************)
(* module_ids.par_iter().map_with(snap, ..).collect() runs one job per     *)
(* module id on the thread pool.  Every job works on a snapshot of the     *)
(* same database state, so a job is one run of module_symbols; the jobs    *)
(* advance in any interleaving and finish in any order.  par_iter.order    *)
(* records the order in which they finished.                               *)
(***************************************************************************)

\* the crates crate_symbols is asked for
CrateIds == {"k1", "k2"}

\* one job of map_with: the collector of module_symbols(module_id), no index yet
NewJob(module_id) == [self |-> NewCollector(module_id), out |-> <<>>]

\* the parallel iterator over module_ids, no job started
par_iter_new(krate, module_ids) ==
    [krate |-> krate,
     module_ids |-> module_ids,
     jobs |-> [n \in 1..Len(module_ids) |-> NewJob(module_ids[n])],
     order |-> <<>>]

\* a gathering that lists the indexes in the order the jobs finished
ParCollectByCompletion(jobs, order) == [n \in 1..Len(order) |-> jobs[order[n]].out[1]]

\* collect::<Vec<_>>() of the indexed parallel iterator: the value of the job at
\* position n goes to position n, whatever the order the jobs finished in
par_collect(jobs, order) == [n \in 1..Len(jobs) |-> jobs[n].out[1]]

InitPar ==
    /\ local_roots \in RootOrders({"r1", "r2"})
    /\ library_roots = <<>>
    /\ buf_src = <<>>
    /\ par_iter = [krate |-> <<>>, module_ids |-> <<>>, jobs |-> <<>>, order |-> <<>>]
    /\ input = <<>>
    /\ indices = <<>>
    /\ query = <<>>
    /\ res = <<>>
    /\ origins = <<>>
    /\ tie = FALSE
    /\ pc = "build"
    /\ enc = <<>>
    /\ NoCollector

\* world_symbols with libs unset, up to the start of the parallel map
WorldSymbolsPar ==
    /\ pc = "query"
    /\ ~query[1].libs
    /\ par_iter' = par_iter_new(<<>>, roots_module_ids(local_roots))
    /\ pc' = "par"
    /\ UNCHANGED <<input, indices, query, res, origins, tie>>
    /\ UNCHANGED <<enc, collectorVars, local_roots, library_roots, buf_src>>

\* crate_symbols, up to the start of the parallel map
CrateSymbolsPar ==
    /\ pc = "query"
    /\ \E krate \in CrateIds :
          par_iter' = par_iter_new(<<krate>>, module_ids_for_crate(krate))
    /\ pc' = "par"
    /\ UNCHANGED <<input, indices, query, res, origins, tie>>
    /\ UNCHANGED <<enc, collectorVars, local_roots, library_roots, buf_src>>

\* a job pops one work item of its collect and processes it
JobWork ==
    /\ pc = "par"
    /\ \E n \in 1..Len(par_iter.jobs) :
          /\ par_iter.jobs[n].self.work # <<>>
          /\ par_iter' =
                [par_iter EXCEPT !.jobs[n].self =
                    do_work([@ EXCEPT !.work = SubSeq(@, 1, Len(@) - 1)],
                            @.work[Len(@.work)])]
    /\ UNCHANGED <<searchVars, enc, collectorVars, local_roots, library_roots, buf_src>>

\* a job whose collect has returned builds its SymbolIndex and finishes
JobIndex ==
    /\ pc = "par"
    /\ \E n \in 1..Len(par_iter.jobs) :
          /\ par_iter.jobs[n].self.work = <<>>
          /\ par_iter.jobs[n].out = <<>>
          /\ par_iter' =
                [par_iter EXCEPT
                    !.jobs[n].out = <<SymbolIndexNew(par_iter.jobs[n].self.symbols)>>,
                    !.order = Append(@, n)]
    /\ UNCHANGED <<searchVars, enc, collectorVars, local_roots, library_roots, buf_src>>

\* all jobs have finished: collect() gathers buf and query.search(&buf) runs
ParSearch ==
    /\ pc = "par"
    /\ Len(par_iter.order) = Len(par_iter.jobs)
    /\ buf_src' = [n \in 1..Len(par_iter.module_ids) |-> <<"module", par_iter.module_ids[n]>>]
    /\ indices' = par_collect(par_iter.jobs, par_iter.order)
    /\ \E tb \in BOOLEAN :
          /\ tie' = (tb /\ HasTie(query[1], indices'))
          /\ origins' = SearchOrigins(query[1], indices', tie')
          /\ res' = Records(indices', origins')
    /\ pc' = "done"
    /\ UNCHANGED <<input, query, enc, collectorVars, local_roots, library_roots, par_iter>>

NextPar ==
    \/ WorldNew \/ Exact
    \/ WorldSymbolsPar \/ CrateSymbolsPar \/ JobWork \/ JobIndex \/ ParSearch

SpecPar == InitPar /\ [][NextPar]_vars

----------------------------------------------------------------------------
(* Properties of world_symbols and index_resolve *)

\* the elements of a sequence
Elements(seq) == {seq[n] : n \in 1..Len(seq)}

\* the modules of the crates under the local roots
LocalModules ==
    {m \in ModuleIds :
        \E r \in Elements(local_roots) : \E k \in Elements(source_root_crates(r)) :
            m \in Elements(module_ids_for_crate(k))}

\* C12: world_symbols chooses its indexes by the libs flag alone.  With libs set
\* it searches the library indexes, one per library root, and no module index;
\* with libs unset it searches the module_symbols index of every module of every
\* crate under every local root, each once, and no library index.  Every record
\* of the result comes from an index of the chosen set.
C12_LibsSelects ==
    pc \in {"done", "resolved"} =>
        LET kind == IF query[1].libs THEN "library" ELSE "module"
        IN  /\ Len(indices) = Len(buf_src)
            /\ \A n \in 1..Len(buf_src) : buf_src[n][1] = kind
            /\ \A m, n \in 1..Len(buf_src) : m # n => buf_src[m] # buf_src[n]
            /\ {buf_src[n][2] : n \in 1..Len(buf_src)} =
                  IF query[1].libs THEN Elements(library_roots) ELSE LocalModules
            /\ \A n \in 1..Len(buf_src) :
                  indices[n] = IF query[1].libs
                               THEN for_files(source_root_files(buf_src[n][2]))
                               ELSE SymbolIndexNew(collect(buf_src[n][2]))
            /\ \A n \in 1..Len(res) :
                  /\ origins[n][1] + 1 \in 1..Len(buf_src)
                  /\ buf_src[origins[n][1] + 1][1] = kind
                  /\ res[n] = At(indices, origins[n])

\* C12 witness: with r1 local and r2, r3 libraries, the search for "f" without
\* libs went over the indexes of m0 and inner and returned their seven records.
C12_Witness ==
    /\ pc = "done" /\ ~query[1].libs
    /\ local_roots = <<"r1">> /\ library_roots = <<"r2", "r3">>
    /\ buf_src = << <<"module", "m0">>, <<"module", "inner">> >>
    /\ query[1].query = <<102>>
    /\ Len(res) = 7

\* C13: index_resolve(db, name) is world_symbols with the query for name that
\* has exact set, limit 4 and the other flags unset: it returns at most 4
\* records, each from the module index of a workspace module and each with a
\* name equal to name.
C13_IndexResolve ==
    pc = "resolved" =>
        LET name == query[1].query
            q    == [QueryNew(name) EXCEPT !.exact = TRUE, !.limit = 4]
        IN  /\ query[1] = q
            /\ ~q.libs /\ ~q.only_types /\ ~q.case_sensitive
            /\ Len(res) <= 4
            /\ \A n \in 1..Len(res) :
                  /\ res[n].name = name
                  /\ buf_src[origins[n][1] + 1] \in {<<"module", m>> : m \in LocalModules}
            /\ res = search(q, world_buf(world_buf_src(FALSE, local_roots, library_roots)), tie)

\* C13 witness: with r1 and r2 local, index_resolve("f") returned 4 of the 8
\* declarations named "f".
C13_Witness ==
    /\ pc = "resolved"
    /\ query[1].query = <<102>>
    /\ local_roots = <<"r1", "r2">>
    /\ Len(res) = 4

ImplItemIds ==
    {impl_data(i).items[n].id : i \in {"impl_1", "impl_2"}, n \in 1..2}

\* C24: every record emitted while an Impl item is processed (the associated
\* functions, consts and type aliases of the impl) has no container name, also
\* when the impl sits in the block module of a named function: the database
\* gives no container for an impl, and the container stack is empty whenever an
\* Impl item is processed.
C24_ImplNoContainer ==
    /\ \A n \in 1..Len(symbol_collector.symbols) :
          symbol_collector.symbols[n].loc \in ImplItemIds =>
              symbol_collector.symbols[n].container_name = <<>>
    /\ (cur # <<>> /\ cur[1].tag = "Impl") =>
          /\ symbol_collector.container_name_stack = <<>>
          /\ container_name([tag |-> "ImplId", id |-> cur[1].id]) = <<>>
          /\ cpc = "loop" =>
                /\ Len(NewSymbols) = Len(impl_data(cur[1].id).items)
                /\ \A n \in 1..Len(NewSymbols) :
                      /\ NewSymbols[n].loc = impl_data(cur[1].id).items[n].id
                      /\ NewSymbols[n].container_name = <<>>

\* C24 witness: the Impl item of the impl in the block of fn f has been
\* processed: fn n and type O have no container, while struct S of the same
\* block module carries the container "f".
C24_Witness ==
    /\ cpc = "loop"
    /\ cur = <<SymbolCollectorWork("Impl", "impl_2", <<>>)>>
    /\ [n \in 1..Len(NewSymbols) |-> NewSymbols[n].loc] = <<"ifn_n", "ity_o">>
    /\ \A n \in 1..Len(NewSymbols) : NewSymbols[n].container_name = <<>>
    /\ \E n \in 1..Len(symbol_collector.symbols) :
          /\ symbol_collector.symbols[n].loc = "st_s"
          /\ symbol_collector.symbols[n].container_name = <<<<102>>>>

\* the number of events of one kind for one work item
Events(kind, item) == Cardinality({n \in 1..Len(trace) : trace[n] = <<kind, item>>})

\* the trace is that of a stack worked one item at a time: the item of every
\* pop was pushed before and every item pushed in between was popped in between
\* (the pop takes the item pushed last among those not yet popped), and the
\* pop is followed by the completion of that item before any other pop
InOrder(events) ==
    \A p \in 1..Len(events) :
        events[p][1] = "pop" =>
            /\ \E q \in 1..(p - 1) :
                  /\ events[q] = <<"push", events[p][2]>>
                  /\ \A r \in (q + 1)..(p - 1) :
                        events[r][1] = "push" =>
                            \E u \in (r + 1)..(p - 1) : events[u] = <<"pop", events[r][2]>>
            /\ \E d \in (p + 1)..Len(events) :
                  /\ events[d] = <<"done", events[p][2]>>
                  /\ \A r \in (p + 1)..(d - 1) : events[r][1] = "push"

\* collect has returned with an empty work stack, and every item ever enqueued
\* was popped once and processed once, in LIFO order
TerminatedInOrder ==
    /\ cpc \in {"returned", "indexed"}
    /\ symbol_collector.work = <<>>
    /\ \A n \in 1..Len(trace) :
          /\ Events("push", trace[n][2]) = 1
          /\ Events("pop", trace[n][2]) = 1
          /\ Events("done", trace[n][2]) = 1
    /\ InOrder(trace)

\* C23: when cancellation is never requested, collect terminates with an empty
\* work stack, and every work item that was ever enqueued has been popped and
\* processed exactly once, in LIFO order (the nesting of bodies, block modules,
\* traits and impls of the database is finite).
C23_Terminates == ([]~cancelled) => <>TerminatedInOrder

\* C23 witness: the collection of m0 has returned without cancellation after
\* popping and processing its thirteen work items.
C23_Witness ==
    /\ cpc = "returned" /\ ~cancelled
    /\ trace[1] = <<"push", SymbolCollectorWork("Module", "m0", <<>>)>>
    /\ Len(trace) = 3 * 13
    /\ TerminatedInOrder

----------------------------------------------------------------------------
(* Property of the parallel map *)

\* the module ids the call enumerated: those of the crate for crate_symbols, those
\* of the crates of the local roots for world_symbols
EnumeratedModuleIds ==
    IF par_iter.krate = <<>>
    THEN roots_module_ids(local_roots)
    ELSE module_ids_for_crate(par_iter.krate[1])

\* C21: for a fixed database state, world_symbols with libs unset and
\* crate_symbols return the same records whatever the schedule of the parallel
\* module_symbols jobs: the gathered index list holds, at each position, the
\* module_symbols value of the module id enumerated at that position, and the
\* result is the search over that list.
C21_ScheduleIndependent ==
    pc = "done" /\ Len(par_iter.order) = Len(par_iter.jobs) =>
        /\ par_iter.module_ids = EnumeratedModuleIds
        /\ indices = [n \in 1..Len(EnumeratedModuleIds) |-> module_symbols(EnumeratedModuleIds[n])]
        /\ res = search(query[1],
                        [n \in 1..Len(EnumeratedModuleIds) |->
                            module_symbols(EnumeratedModuleIds[n])],
                        tie)

\* C21 witness: world_symbols over m0, inner and m2 has returned records of
\* different modules after the three jobs finished in the reverse of the
\* enumeration order.
C21_Witness ==
    /\ pc = "done"
    /\ par_iter.krate = <<>>
    /\ par_iter.module_ids = <<"m0", "inner", "m2">>
    /\ par_iter.order = <<3, 2, 1>>
    /\ \E i, j \in 1..Len(origins) : origins[i][1] # origins[j][1]

====
